---- MODULE Spec2Model ----
(***************************************************************************)
(* A model of split_nsp.py: the chunk-size parser (parse_size), the part   *)
(* naming rule (build_part_name), the chunked copy (split_file) and the    *)
(* batch driver (main, confirm_overwrite).                                 *)
(*                                                                         *)
(* A path is a record [dir, name]; a file name is the sequence of its      *)
(* dot-separated components ("a.00.nsp" is <<"a", "00", "nsp">>).  A file's *)
(* contents are a sequence of bytes.  The filesystem is fs (path -> bytes)  *)
(* together with dirs (the directories that exist).                        *)
(***************************************************************************)
EXTENDS Integers, Sequences, FiniteSets, TLC

\* ------------------------------------------------------------------ bounds
\* Largest source file, in bytes.
MaxSize == 5
\* Largest chunk size, in bytes (0 is the "--chunk-size 0" that parse_size lets through).
MaxChunk == 3
\* Part indices 0..MaxStale-1 may already exist in the output directory.
MaxStale == 2
\* How many times the environment may truncate the source during a copy.
MaxTruncations == 1
\* Longest chunk-size string given to parse_size.
MaxLen == 4

\* READ_BUFFER is 8 MiB in the source; it is scaled to the model's file sizes
\* so that a part needs more than one read.
READ_BUFFER == 2

None == "None"

Min(a, b) == IF a < b THEN a ELSE b

\* ------------------------------------------------------------- parse_size
\* A size is kept in factored form, number * base^exp, since the products
\* (1024^3, 1000^4, ...) do not fit TLC's 32-bit integers.
Bytes(n, base, exp) == [number |-> n, base |-> base, exp |-> exp]
\* argparse.ArgumentTypeError, or the ValueError of float(): argparse rejects both.
Rejected == [number |-> -1, base |-> 0, exp |-> 0]
Unset == [number |-> -2, base |-> 0, exp |-> 0]

Digits == <<"0", "1", "2", "3", "4", "5", "6", "7", "8", "9">>
DigitChars == {Digits[i] : i \in 1..10}
DigitVal(c) == (CHOOSE i \in 1..10 : Digits[i] = c) - 1

\* The characters chunk-size strings are drawn from.
Alphabet == {"0", "2", "k", "m", "g", "i", "b", "K", "G", "a"}

\* str.lower
LowerChar(c) == CASE c = "K" -> "k" [] c = "G" -> "g" [] OTHER -> c
Lower(s) == [i \in 1..Len(s) |-> LowerChar(s[i])]

\* str.isdigit: non-empty and every character a digit
IsDigit(s) == Len(s) > 0 /\ \A i \in 1..Len(s) : s[i] \in DigitChars

\* int(s) of a digit string
RECURSIVE ToInt(_)
ToInt(s) == IF s = <<>> THEN 0
            ELSE 10 * ToInt(SubSeq(s, 1, Len(s) - 1)) + DigitVal(s[Len(s)])

\* The suffixes dict in the order sorted(suffixes, key=len, reverse=True) visits it.
Suffixes == <<
    [suffix |-> <<"k", "i", "b">>, base |-> 1024, exp |-> 1],
    [suffix |-> <<"m", "i", "b">>, base |-> 1024, exp |-> 2],
    [suffix |-> <<"g", "i", "b">>, base |-> 1024, exp |-> 3],
    [suffix |-> <<"t", "i", "b">>, base |-> 1024, exp |-> 4],
    [suffix |-> <<"k", "b">>, base |-> 1000, exp |-> 1],
    [suffix |-> <<"m", "b">>, base |-> 1000, exp |-> 2],
    [suffix |-> <<"g", "b">>, base |-> 1000, exp |-> 3],
    [suffix |-> <<"t", "b">>, base |-> 1000, exp |-> 4],
    [suffix |-> <<"k">>, base |-> 1024, exp |-> 1],
    [suffix |-> <<"m">>, base |-> 1024, exp |-> 2],
    [suffix |-> <<"g">>, base |-> 1024, exp |-> 3],
    [suffix |-> <<"t">>, base |-> 1024, exp |-> 4] >>

\* str.endswith
EndsWith(s, suffix) ==
    /\ Len(s) >= Len(suffix)
    /\ SubSeq(s, Len(s) - Len(suffix) + 1, Len(s)) = suffix

\* float(prefix) followed by the sign test and the product.  Over Alphabet the
\* only strings float() accepts are the digit strings.
ParseNumber(prefix, entry) ==
    IF ~IsDigit(prefix) THEN Rejected
    ELSE IF ToInt(prefix) <= 0 THEN Rejected
    ELSE Bytes(ToInt(prefix), entry.base, entry.exp)

parse_size(value) ==
    LET stripped == Lower(value)
        hits == {k \in 1..Len(Suffixes) : EndsWith(stripped, Suffixes[k].suffix)}
    IN  IF IsDigit(stripped) THEN Bytes(ToInt(stripped), 1, 0)
        ELSE IF hits = {} THEN Rejected
        ELSE LET first == CHOOSE k \in hits : \A j \in hits : k <= j
                 entry == Suffixes[first]
             IN  ParseNumber(SubSeq(stripped, 1, Len(stripped) - Len(entry.suffix)), entry)

\* ------------------------------------------------------------------ paths
SrcDir == "d"
OutDir == "out"
Path(d, n) == [dir |-> d, name |-> n]

\* f"{index:02d}"
Fmt02(index) == IF index < 10 THEN "0" \o ToString(index) ELSE ToString(index)

\* os.path.splitext on a file name: there is an extension when the name has a
\* dot that follows some non-dot character.
HasExt(name) == Len(name) >= 2 /\ \E i \in 1..(Len(name) - 1) : name[i] # ""

build_part_name(base_path, index) ==
    LET name == base_path.name
    IN  IF HasExt(name)
        THEN Path(base_path.dir,
                  SubSeq(name, 1, Len(name) - 1) \o <<Fmt02(index)>> \o <<name[Len(name)]>>)
        ELSE Path(base_path.dir, name \o <<Fmt02(index)>>)

\* output_dir of split_file, and args.output or os.path.dirname(file_path) of main
OutputDir(output, file_path) == IF output = None THEN file_path.dir ELSE output

\* os.path.join(output_dir, os.path.basename(file_path))
OutputBase(output, file_path) == Path(OutputDir(output, file_path), file_path.name)

\* Mutant: the division rounds down, so a final partial chunk is not counted.
TotalPartsFloor(size, chunk) == size \div chunk

\* (file_size + chunk_size - 1) // chunk_size, lines 118 and 244
TotalParts(size, chunk) == (size + chunk - 1) \div chunk

\* ------------------------------------------------------------- filesystem
Exists(f, p) == p \in DOMAIN f
\* open(p, "wb") followed by writes: the file at p holds exactly c
WriteFile(f, p, c) == [q \in (DOMAIN f) \cup {p} |-> IF q = p THEN c ELSE f[q]]

FileA == Path(SrcDir, <<"a", "nsp">>)
FileB == Path(SrcDir, <<"a", "00", "nsp">>)
\* Contents whose bytes are all different, so that any loss, duplication or
\* reordering shows.
Content(tag, n) == [i \in 1..n |-> tag + i]
StaleContent == <<99>>

\* ------------------------------------------------------------------ state
VARIABLES
    fs,           \* the files: path -> contents
    dirs,         \* the directories that exist
    env_fs,       \* history: the files as the user and the environment left them
    args,         \* argparse's namespace, with files = list(iter_targets(...))
    pc,           \* where main is
    file_no,      \* position of main's loop over files (1-based)
    intended_parts,  \* main's list for the current file
    response,     \* what the user typed at the "Overwrite?" prompt ("" before it)
    file_size, total_parts, parts, index, part_bytes, remaining, tell, read,
                  \* split_file's locals; tell is source.tell(), read the last readinto
    start_fs,     \* history: fs when split_file was entered
    start_dirs,   \* history: dirs when split_file was entered
    done_log,     \* the "[done]" lines printed
    all_parts,    \* main's all_parts
    exit_code,    \* the process's exit status (-1 while it runs)
    error,        \* the exception that ended the run ("" when none)
    truncations,  \* how many times the environment truncated a source
    value,        \* parse_size's argument
    parsed        \* parse_size's result

mainVars == <<args, pc, file_no, intended_parts, response, all_parts, exit_code, error>>
splitVars == <<file_size, total_parts, parts, index, part_bytes, remaining, tell, read,
               start_fs, start_dirs, done_log>>
fsVars == <<fs, dirs, env_fs, truncations>>
parseVars == <<value, parsed>>
vars == <<mainVars, splitVars, fsVars, parseVars>>

Refusing == "Refusing to overwrite existing part"
UnexpectedEOF == "Unexpected end of file"
Cancelled == "Operation cancelled by user."
ZeroDivision == "ZeroDivisionError"

file_path == args.files[file_no]
output_base == OutputBase(args.output, file_path)

\* --------------------------------------------------------- initial states
\* The batches main may be given: the files of a non-empty list are existing
\* files, each once.
Batches(f) ==
    {<<FileA>>} \cup
    (IF Exists(f, FileB) THEN {<<FileB>>, <<FileA, FileB>>, <<FileB, FileA>>} ELSE {})

\* FileA of sizeA bytes; FileB of sizeB bytes when sizeB > 0; the parts of
\* FileA with an index in stale already in the output directory.
InitialFiles(sizeA, sizeB, output, ds, stale) ==
    LET out == OutputDir(output, FileA)
        old == IF out \in ds
               THEN {build_part_name(OutputBase(output, FileA), i) : i \in stale}
               ELSE {}
        dom == {FileA} \cup (IF sizeB > 0 THEN {FileB} ELSE {}) \cup old
    IN  [p \in dom |-> IF p = FileA THEN Content(10, sizeA)
                       ELSE IF p = FileB /\ sizeB > 0 THEN Content(20, sizeB)
                       ELSE StaleContent]

SplitLocalsInit ==
    /\ file_size = 0 /\ total_parts = 0 /\ parts = <<>> /\ index = 0
    /\ part_bytes = 0 /\ remaining = 0 /\ tell = 0 /\ read = -1
    /\ done_log = <<>>

Init ==
    /\ \E sizeA \in 0..MaxSize, sizeB \in {0, 1, MaxSize},
          output \in {None, OutDir}, ds \in {{SrcDir}, {SrcDir, OutDir}},
          stale \in SUBSET (0..(MaxStale - 1)) :
          \* a directory the run never names plays no part
          /\ output = None => ds = {SrcDir}
          /\ dirs = ds
          /\ fs = InitialFiles(sizeA, sizeB, output, ds, stale)
          /\ \E batch \in Batches(fs), chunk \in 0..MaxChunk,
                ow \in BOOLEAN, dry \in BOOLEAN :
                args = [files |-> batch, output |-> output, chunk_size |-> chunk,
                        overwrite |-> ow, dry_run |-> dry]
    /\ env_fs = fs /\ start_fs = fs /\ start_dirs = dirs
    /\ pc = "main" /\ file_no = 1 /\ intended_parts = <<>> /\ response = ""
    /\ all_parts = <<>> /\ exit_code = -1 /\ error = "" /\ truncations = 0
    /\ SplitLocalsInit
    /\ value = <<>> /\ parsed = Unset

\* The process ends with status 1: a SplitError main catches (lines 260-262),
\* or an exception nothing catches (the interpreter's traceback).
Fail(msg) ==
    /\ pc' = "exit" /\ exit_code' = 1 /\ error' = msg

\* ------------------------------------------------------------------- main
\* Lines 237-250, up to the prompt: the next file's intended parts.
MainPlan ==
    /\ pc = "main" /\ file_no <= Len(args.files)
    /\ response' = ""
    /\ IF args.chunk_size = 0
       THEN /\ Fail(ZeroDivision)
            /\ UNCHANGED intended_parts
       ELSE /\ intended_parts' =
                  [i \in 1..TotalParts(Len(fs[file_path]), args.chunk_size) |->
                      build_part_name(output_base, i - 1)]
            /\ pc' = IF ~args.dry_run /\ intended_parts' # <<>> /\ ~args.overwrite
                     THEN "confirm" ELSE "split"
            /\ UNCHANGED <<exit_code, error>>
    /\ UNCHANGED <<args, file_no, all_parts, splitVars, fsVars, parseVars>>

\* response not in {"y", "yes"}, after strip().lower()
Declined(r) == r \notin {"y", "yes"}

\* confirm_overwrite, lines 161-171.  It is called outside main's try block.
ConfirmOverwrite ==
    /\ pc = "confirm"
    /\ LET existing == SelectSeq(intended_parts, LAMBDA p : Exists(fs, p))
       IN  IF existing = <<>>
           THEN /\ pc' = "split"
                /\ UNCHANGED <<response, exit_code, error>>
           ELSE \E r \in {"y", "yes", "n", "maybe"} :
                   /\ response' = r
                   /\ IF Declined(r)
                      THEN Fail(Cancelled)
                      ELSE /\ pc' = "split"
                           /\ UNCHANGED <<exit_code, error>>
    /\ UNCHANGED <<args, file_no, intended_parts, all_parts, splitVars, fsVars, parseVars>>

\* Line 263: the loop goes on to the next file.
MainCollect ==
    /\ pc = "return"
    /\ all_parts' = Append(all_parts, <<file_path, parts>>)
    /\ file_no' = file_no + 1
    /\ pc' = "main"
    /\ UNCHANGED <<args, intended_parts, response, exit_code, error,
                   splitVars, fsVars, parseVars>>

\* Lines 265-269.
MainExit ==
    /\ pc = "main" /\ file_no > Len(args.files)
    /\ pc' = "exit" /\ exit_code' = 0
    /\ UNCHANGED <<args, file_no, intended_parts, response, all_parts, error,
                   splitVars, fsVars, parseVars>>

\* ------------------------------------------------------------- split_file
\* Lines 105-131: the size test, makedirs, the plan, the dry run's return, and
\* opening the source (line 133).
SplitStart ==
    /\ pc = "split"
    /\ start_fs' = fs /\ start_dirs' = dirs
    /\ file_size' = Len(fs[file_path])
    /\ read' = -1 /\ index' = 0 /\ part_bytes' = 0 /\ remaining' = 0 /\ tell' = 0
    /\ IF file_size' <= args.chunk_size
       THEN /\ parts' = <<>> /\ pc' = "return"
            /\ UNCHANGED <<total_parts, dirs>>
       ELSE /\ dirs' = dirs \cup {OutputDir(args.output, file_path)}
            /\ total_parts' = TotalParts(file_size', args.chunk_size)
            /\ IF args.dry_run
               THEN /\ parts' = [i \in 1..total_parts' |-> build_part_name(output_base, i - 1)]
                    /\ pc' = "return"
               ELSE /\ parts' = <<>> /\ pc' = "part"
    /\ UNCHANGED <<args, file_no, intended_parts, response, all_parts, exit_code, error,
                   done_log, fs, env_fs, truncations, parseVars>>

\* Mutant: the overwrite flag is read the wrong way round.
RefusesInverted(exists, overwrite) == exists /\ overwrite

\* Line 136: os.path.exists(part_path) and not overwrite
Refuses(exists, overwrite) == exists /\ ~overwrite

\* Mutant: the part is not capped at the chunk size.
RemainingNoCap(chunk, size, pos) == size - pos

\* Line 142: min(chunk_size, file_size - source.tell())
Remaining(chunk, size, pos) == Min(chunk, size - pos)

part_path == build_part_name(output_base, index)

\* Lines 134-143: the next part's path, the conflict test, and open(part_path, "wb"),
\* which creates the file or empties it.
PartOpen ==
    /\ pc = "part" /\ index < total_parts
    /\ IF Refuses(Exists(fs, part_path), args.overwrite)
       THEN /\ Fail(Refusing)
            /\ UNCHANGED <<part_bytes, remaining, fs>>
       ELSE /\ part_bytes' = 0
            /\ remaining' = Remaining(args.chunk_size, file_size, tell)
            /\ fs' = WriteFile(fs, part_path, <<>>)
            /\ pc' = "copy"
            /\ UNCHANGED <<exit_code, error>>
    /\ UNCHANGED <<args, file_no, intended_parts, response, all_parts,
                   file_size, total_parts, parts, index, tell, read,
                   start_fs, start_dirs, done_log, dirs, env_fs, truncations, parseVars>>

\* source.readinto(memoryview(buffer)[:to_read]) at position pos: 0 at the end of
\* the file, otherwise between 1 and to_read bytes that the file has.
ReadCounts(src, pos, to_read) ==
    LET avail == Len(src) - pos
    IN  IF avail <= 0 THEN {0} ELSE 1..Min(to_read, avail)

\* Mutant: the end of the file is not noticed.
NeverEOF(n) == FALSE

\* Line 147: read == 0
IsEOF(n) == n = 0

\* Lines 144-150: one turn of the copy loop.
CopyLoop ==
    /\ pc = "copy" /\ part_bytes < remaining
    /\ LET to_read == Min(READ_BUFFER, remaining - part_bytes)
       IN  \E n \in ReadCounts(fs[file_path], tell, to_read) :
              /\ read' = n
              /\ IF IsEOF(n)
                 THEN /\ Fail(UnexpectedEOF)
                      /\ UNCHANGED <<fs, part_bytes, tell>>
                 ELSE /\ fs' = WriteFile(fs, part_path,
                                 fs[part_path] \o SubSeq(fs[file_path], tell + 1, tell + n))
                      /\ part_bytes' = part_bytes + n
                      /\ tell' = tell + n
                      /\ UNCHANGED <<pc, exit_code, error>>
    /\ UNCHANGED <<args, file_no, intended_parts, response, all_parts,
                   file_size, total_parts, parts, index, remaining,
                   start_fs, start_dirs, done_log, dirs, env_fs, truncations, parseVars>>

\* Lines 151-155: the part is closed, recorded and reported.
PartDone ==
    /\ pc = "copy" /\ ~(part_bytes < remaining)
    /\ parts' = Append(parts, part_path)
    /\ done_log' = Append(done_log, [part |-> part_path, bytes |-> part_bytes])
    /\ index' = index + 1
    /\ pc' = "part"
    /\ UNCHANGED <<args, file_no, intended_parts, response, all_parts, exit_code, error,
                   file_size, total_parts, part_bytes, remaining, tell, read,
                   start_fs, start_dirs, fsVars, parseVars>>

\* Lines 157-158.
SplitReturn ==
    /\ pc = "part" /\ ~(index < total_parts)
    /\ pc' = "return"
    /\ UNCHANGED <<args, file_no, intended_parts, response, all_parts, exit_code, error,
                   splitVars, fsVars, parseVars>>

\* ------------------------------------------------------------ environment
\* Another process truncates the source while split_file copies it (after
\* its size was measured).  split_file looks at the source only in the copy
\* loop, so a truncation between two parts is the same truncation at the start
\* of the next part's loop.
Truncate ==
    /\ pc = "copy" /\ truncations < MaxTruncations
    /\ \E n \in 0..(Len(fs[file_path]) - 1) :
          /\ fs' = [fs EXCEPT ![file_path] = SubSeq(@, 1, n)]
          /\ env_fs' = [env_fs EXCEPT ![file_path] = SubSeq(fs[file_path], 1, n)]
    /\ truncations' = truncations + 1
    /\ UNCHANGED <<mainVars, splitVars, dirs, parseVars>>

Next ==
    \/ MainPlan
    \/ ConfirmOverwrite
    \/ SplitStart
    \/ PartOpen
    \/ CopyLoop
    \/ PartDone
    \/ SplitReturn
    \/ MainCollect
    \/ MainExit
    \/ Truncate

Spec == Init /\ [][Next]_vars

\* ------------------------------------------- parse_size on its own
\* All strings over Alphabet of at most MaxLen characters.
Strings == UNION {[1..n -> Alphabet] : n \in 0..MaxLen}

InitParse ==
    /\ value \in Strings /\ parsed = Unset
    /\ fs = InitialFiles(0, 0, None, {SrcDir}, {}) /\ dirs = {SrcDir}
    /\ args = [files |-> <<FileA>>, output |-> None, chunk_size |-> 1,
               overwrite |-> FALSE, dry_run |-> FALSE]
    /\ env_fs = fs /\ start_fs = fs /\ start_dirs = dirs
    /\ pc = "parse" /\ file_no = 1 /\ intended_parts = <<>> /\ response = ""
    /\ all_parts = <<>> /\ exit_code = -1 /\ error = "" /\ truncations = 0
    /\ SplitLocalsInit

\* argparse applies type=parse_size to the --chunk-size string (line 192).
ParseSize ==
    /\ pc = "parse" /\ parsed = Unset
    /\ parsed' = parse_size(value)
    /\ UNCHANGED <<value, mainVars, splitVars, fsVars>>

NextParse == ParseSize

SpecParse == InitParse /\ [][NextParse]_vars

\* ================================================================== claims
\* ceil(S / C) for C > 0, defined by what it means: the least n with n * C >= S.
CeilDiv(S, C) == CHOOSE n \in 0..S : n * C >= S /\ (n - 1) * C < S

\* The contents of the files of a list of paths, joined in order.
RECURSIVE Concat(_, _)
Concat(f, ps) == IF ps = <<>> THEN <<>> ELSE f[Head(ps)] \o Concat(f, Tail(ps))

\* split_file was entered for the current file and has not returned to main's loop.
InSplit ==
    \/ pc \in {"part", "copy", "return"}
    \/ pc = "exit" /\ error \in {Refusing, UnexpectedEOF}

\* ... and it is a real split: not a dry run, and the file is larger than a chunk.
InRealSplit ==
    /\ InSplit /\ ~args.dry_run
    /\ args.chunk_size > 0 /\ file_size > args.chunk_size

\* A real split returned to main without an error.
SplitSucceeded == pc = "return" /\ InRealSplit

\* The i-th intended part path of the current file, by the naming rule.
IntendedPath(i) == build_part_name(output_base, i)
IntendedCount == CeilDiv(file_size, args.chunk_size)

\* Some intended part of the current file existed when its split started, and
\* overwrite is off.
ConflictAtStart ==
    /\ InRealSplit /\ ~args.overwrite
    /\ \E i \in 0..(IntendedCount - 1) : Exists(start_fs, IntendedPath(i))

\* C1: after a successful real split of a source with S > C > 0, the returned
\* parts' contents joined in index order are the S-byte source as it was measured.
RoundTrip ==
    SplitSucceeded => Concat(fs, parts) = start_fs[file_path]

\* C1's case: a split into three or more parts, the last one partial, that
\* replaced parts which existed before.
RoundTripWitness ==
    /\ SplitSucceeded /\ Len(parts) >= 3
    /\ file_size % args.chunk_size # 0
    /\ args.overwrite /\ Exists(start_fs, parts[1])

\* C2: a successful real split returns exactly ceil(S / C) parts; each but the
\* last holds C bytes, the last holds S - C * (N - 1) bytes, which is > 0 and <= C.
PartCountAndSizes ==
    SplitSucceeded =>
        LET N == IntendedCount
            last == file_size - args.chunk_size * (N - 1)
        IN  /\ Len(parts) = N
            /\ \A j \in 1..Len(parts) : parts[j] = IntendedPath(j - 1)
            /\ \A j \in 1..(N - 1) : Len(fs[parts[j]]) = args.chunk_size
            /\ Len(fs[parts[N]]) = last
            /\ 0 < last /\ last <= args.chunk_size

\* C2's case: a returned split whose last part is shorter than a chunk and whose
\* other parts took more than one read each.
PartCountAndSizesWitness ==
    /\ SplitSucceeded /\ Len(parts) >= 2
    /\ Len(fs[parts[Len(parts)]]) < args.chunk_size
    /\ args.chunk_size > READ_BUFFER

\* C3: with overwrite off and some intended part already there when the split
\* starts, nothing is written: no intended part is created or changed, and the
\* split does not return normally.
ConflictFailFast ==
    ConflictAtStart =>
        /\ \A i \in 0..(IntendedCount - 1) :
              Exists(fs, IntendedPath(i)) =>
                  /\ Exists(start_fs, IntendedPath(i))
                  /\ fs[IntendedPath(i)] = start_fs[IntendedPath(i)]
        /\ pc # "return"

\* C4: a dry run of a source with S > C returns the list of part paths a real run
\* returns and leaves the files and the directories as they were.
DryRunTouchesNothing ==
    (pc = "return" /\ args.dry_run /\ args.chunk_size > 0 /\ file_size > args.chunk_size) =>
        /\ parts = [i \in 1..IntendedCount |-> IntendedPath(i - 1)]
        /\ fs = start_fs
        /\ dirs = start_dirs

\* C5: with overwrite off and some intended part already there, the split fails
\* (it never returns normally, and the run ends with status 1, also when the
\* prompt is declined), and every part that was there keeps its contents; more,
\* with overwrite off no file that was there before the run is ever changed.
ExistingPartsKept ==
    /\ ConflictAtStart =>
          /\ \A i \in 0..(IntendedCount - 1) :
                Exists(start_fs, IntendedPath(i)) =>
                    /\ Exists(fs, IntendedPath(i))
                    /\ fs[IntendedPath(i)] = start_fs[IntendedPath(i)]
          /\ pc # "return"
          /\ pc = "exit" => exit_code = 1
    /\ error = Cancelled => pc = "exit" /\ exit_code = 1
    /\ ~args.overwrite =>
          \A p \in DOMAIN env_fs : Exists(fs, p) /\ fs[p] = env_fs[p]

\* C5's case: the run was refused at an existing part after writing an earlier one.
ExistingPartsKeptWitness ==
    /\ ConflictAtStart /\ pc = "exit" /\ error = Refusing
    /\ index >= 1 /\ Exists(start_fs, part_path)

\* C6: once a read returns zero bytes inside the copy loop the run has failed with
\* "Unexpected end of file": part index is neither reported nor in the part list,
\* no later part is written, and nothing is handed to main; and a part list never
\* holds a part shorter than planned.
ShortReadFails ==
    /\ read = 0 =>
          /\ pc = "exit" /\ error = UnexpectedEOF /\ exit_code = 1
          /\ Len(parts) = index
          /\ \A k \in 1..Len(done_log) : done_log[k].part # part_path
          /\ \A j \in (index + 1)..(total_parts - 1) :
                Exists(fs, IntendedPath(j)) =>
                    /\ Exists(start_fs, IntendedPath(j))
                    /\ fs[IntendedPath(j)] = start_fs[IntendedPath(j)]
          /\ Len(all_parts) = file_no - 1
    /\ InRealSplit =>
          \A j \in 1..Len(parts) :
              Len(fs[parts[j]]) = Min(args.chunk_size, file_size - args.chunk_size * (j - 1))

\* C6's case: the source shrank, the read came back empty after an earlier part
\* was finished, with part of the current one already on disk.
ShortReadFailsWitness ==
    /\ read = 0 /\ index >= 1 /\ part_bytes > 0 /\ truncations > 0

\* C7: when every input is no larger than the chunk size, nothing is written,
\* every split returns the empty list, and main ends with status 0.
NoOpIsNotAnError ==
    (/\ pc # "parse" /\ args.chunk_size > 0
     /\ \A i \in 1..Len(args.files) : Len(env_fs[args.files[i]]) <= args.chunk_size) =>
        /\ fs = env_fs
        /\ pc = "return" => parts = <<>>
        /\ \A k \in 1..Len(all_parts) : all_parts[k][2] = <<>>
        /\ pc = "exit" => exit_code = 0

\* The integers the spec's size strings stand for.
DecimalUnits == {<<"k">>, <<"m">>, <<"g">>, <<"t">>}
BinaryUnits == {<<"k", "i">>, <<"m", "i">>, <<"g", "i">>, <<"t", "i">>}
UnitExp(u) == CASE u[1] = "k" -> 1 [] u[1] = "m" -> 2 [] u[1] = "g" -> 3 [] u[1] = "t" -> 4

\* value is digits followed by unit (case-insensitively)
DigitsThen(s, unit) ==
    /\ EndsWith(Lower(s), unit)
    /\ IsDigit(SubSeq(s, 1, Len(s) - Len(unit)))
NumberOf(s, unit) == ToInt(SubSeq(s, 1, Len(s) - Len(unit)))

\* The shapes the spec gives a meaning to (the decimal units with a trailing B,
\* which the spec does not mention, are left out of every case below).
SpecShaped(s) ==
    \/ IsDigit(s)
    \/ \E u \in DecimalUnits : DigitsThen(s, u) \/ DigitsThen(s, u \o <<"b">>)
    \/ \E u \in BinaryUnits : DigitsThen(s, u) \/ DigitsThen(s, u \o <<"b">>)

\* C8: parse_size gives a digit string its value, multiplies an integer with
\* K/M/G/T by 10^3/10^6/10^9/10^12 and one with Ki/Mi/Gi/Ti (B optional) by
\* 2^10/2^20/2^30/2^40, whatever the case, and rejects every other string.
ParseSizeAsSpecified ==
    parsed # Unset =>
        /\ IsDigit(value) => parsed = Bytes(ToInt(value), 1, 0)
        /\ \A u \in DecimalUnits :
              (DigitsThen(value, u) /\ NumberOf(value, u) > 0) =>
                  parsed = Bytes(NumberOf(value, u), 1000, UnitExp(u))
        /\ \A u \in BinaryUnits : \A v \in {u, u \o <<"b">>} :
              (DigitsThen(value, v) /\ NumberOf(value, v) > 0) =>
                  parsed = Bytes(NumberOf(value, v), 1024, UnitExp(u))
        /\ ~SpecShaped(value) => parsed = Rejected

\* C9: no input file of the batch is ever changed or removed by the run.
SourcesNeverModified ==
    pc # "parse" =>
        \A i \in 1..Len(args.files) :
            /\ Exists(fs, args.files[i])
            /\ fs[args.files[i]] = env_fs[args.files[i]]

\* C10: after "y" or "yes" at the prompt the run does not end with the
\* "Refusing to overwrite" error; after any other answer it ends before any write.
ConfirmationHonoured ==
    /\ response \in {"y", "yes"} => error # Refusing
    /\ response \notin {"", "y", "yes"} =>
          /\ pc = "exit" /\ error = Cancelled
          /\ \A k \in 1..Len(intended_parts) :
                Exists(fs, intended_parts[k]) =>
                    /\ Exists(env_fs, intended_parts[k])
                    /\ fs[intended_parts[k]] = env_fs[intended_parts[k]]

====
